---- MODULE Spec2Model ----
(***************************************************************************)
(* Model of src-tauri/transcribe_wav.py: the speech-recognition worker.    *)
(*                                                                         *)
(* Strings are sequences of Unicode code points, byte strings are          *)
(* sequences of integers 0..255.  A float32 sample produced by             *)
(* decode_wav_bytes is the pair <<v, 32768>> standing for v / 32768.0.     *)
(* stdin is the host's side of the pipe: what a read returns is chosen by  *)
(* the environment at the moment of the read.                              *)
(***************************************************************************)
EXTENDS Integers, Sequences, FiniteSets, TLC

\* ------------------------------------------------------------------ bounds
\* Number of fully received request frames the host sends in one run.
MaxFrames == 2

\* Longest PCM data chunk, in bytes, handed to the decoder on its own.
MaxPcmLen == 4

\* Longest recognized text, in code points, and largest number of segments
\* of a segmented result, handed to the response encoder on its own.
MaxTextLen == 3

MaxSegments == 2

\* ------------------------------------------------------- program constants
SAMPLE_RATE == 16000

\* 'ready\n'
ReadyLine ==
    <<114, 101, 97, 100, 121, 10>>
\* 'Missing input wav bytes on stdin'
MsgMissing ==
    <<77, 105, 115, 115, 105, 110, 103, 32, 105, 110, 112, 117, 116, 32, 119, 97, 118, 32, 98, 121, 116, 101, 115, 32, 111, 110, 32, 115, 116, 100, 105, 110>>
\* 'ERROR: '
ErrorPrefix ==
    <<69, 82, 82, 79, 82, 58, 32>>
\* 'Input WAV must be mono 16-bit PCM'
MsgMono16 ==
    <<73, 110, 112, 117, 116, 32, 87, 65, 86, 32, 109, 117, 115, 116, 32, 98,
      101, 32, 109, 111, 110, 111, 32, 49, 54, 45, 98, 105, 116, 32, 80, 67, 77>>
\* 'Input WAV must be 16000Hz'  (f"Input WAV must be {SAMPLE_RATE}Hz")
MsgRate ==
    <<73, 110, 112, 117, 116, 32, 87, 65, 86, 32, 109, 117, 115, 116, 32, 98,
      101, 32, 49, 54, 48, 48, 48, 72, 122>>
\* messages of the errors wave.open raises on a container it cannot parse
\* 'file does not start with RIFF id'
MsgNotRiff ==
    <<102, 105, 108, 101, 32, 100, 111, 101, 115, 32, 110, 111, 116, 32, 115,
      116, 97, 114, 116, 32, 119, 105, 116, 104, 32, 82, 73, 70, 70, 32, 105, 100>>
\* 'bad sample width'
MsgBadWidth ==
    <<98, 97, 100, 32, 115, 97, 109, 112, 108, 101, 32, 119, 105, 100, 116, 104>>
\* 'bad # of channels'
MsgBadChannels ==
    <<98, 97, 100, 32, 35, 32, 111, 102, 32, 99, 104, 97, 110, 110, 101, 108, 115>>

\* --------------------------------------------------------- input alphabets
\* 'hi'
TxtHi == <<104, 105>>
\* ' hi\n'
TxtPadded == <<32, 104, 105, 10>>
\* U+00E9
TxtCafe == <<233>>
\* 'ERROR: x'
TxtErr == <<69, 82, 82, 79, 82, 58, 32, 120>>
\* 'boom'
MsgBoom == <<98, 111, 111, 109>>

\* Size in bytes of the RIFF/WAVE header (RIFF, WAVE, fmt and data chunk
\* headers) in front of the PCM data of a canonical container.
WavHeaderLen == 44

Wav(nch, bits, rate, data) ==
    [hdr |-> "RIFF", nchannels |-> nch, bits |-> bits, rate |-> rate, data |-> data]

Junk(data) ==
    [hdr |-> "none", nchannels |-> 0, bits |-> 0, rate |-> 0, data |-> data]

\* Two little-endian int16 samples: -32768 and 32767.
Pcm2 == <<0, 128, 255, 127>>

\* The payloads the host may put in a request frame.
Containers ==
    { Wav(1, 16, 16000, Pcm2),      \* valid
      Wav(1, 16, 16000, <<>>),      \* valid header, zero frames
      Wav(2, 16, 16000, Pcm2),      \* stereo
      Wav(0, 16, 16000, Pcm2),      \* no channels
      Wav(1, 8, 16000, Pcm2),       \* 8-bit
      Wav(1, 12, 16000, Pcm2),      \* 12 bits per sample
      Wav(1, 0, 16000, Pcm2),       \* 0 bits per sample
      Wav(1, 16, 8000, Pcm2),       \* 8 kHz
      Junk(<<1, 2, 3>>),            \* too short for a chunk header
      Junk(<<1, 2, 3, 4, 5, 6, 7, 8, 9>>) }

\* What model.recognize may do with a buffer: return a string, return a
\* list of segments, or raise.
Answers ==
    { [kind |-> "str",   items |-> <<TxtHi>>],
      [kind |-> "str",   items |-> <<TxtPadded>>],
      [kind |-> "str",   items |-> <<TxtErr>>],
      [kind |-> "list",  items |-> <<TxtHi, TxtCafe>>],
      [kind |-> "raise", items |-> <<MsgBoom>>] }

NoAnswer == [kind |-> "none", items |-> <<>>]

\* Bytes a read of the frame header may return when the stream ends early.
PartialHeaders == { <<>>, <<48>>, <<48, 0>>, <<48, 0, 0>> }

\* Data chunks handed to the decoder on its own: every byte string of up to
\* MaxPcmLen bytes over a few byte values.
PcmSeqs ==
    UNION { [1..n -> {0, 1, 127, 128, 255}] : n \in 0..MaxPcmLen }

\* Containers handed to the decoder on its own.
DecodeInputs ==
    { Wav(nch, 16, rate, d) : nch \in {1, 2}, rate \in {8000, 16000}, d \in PcmSeqs }

\* Code points of the texts handed to the response encoder on its own:
\* space, newline, 'h', U+00E9 (2 bytes in UTF-8), U+20AC (3 bytes).
TextChars == {32, 10, 104, 233, 8364}

Texts ==
    UNION { [1..n -> TextChars] : n \in 0..MaxTextLen }

Segments ==
    UNION { [1..n -> TextChars] : n \in 0..1 }

\* Values model.recognize may return, for the response encoder on its own.
Results ==
    { [kind |-> "str", items |-> << t >>] : t \in Texts } \cup
    { [kind |-> "list", items |-> l] :
          l \in UNION { [1..n -> Segments] : n \in 0..MaxSegments } }

\* ------------------------------------------------------------ pure helpers
\* len(container bytes)
ByteLen(c) ==
    IF c.hdr = "RIFF" THEN WavHeaderLen + Len(c.data) ELSE Len(c.data)

\* Variant: only the low 16 bits of the length are written.
Pack16(n) ==
    << n % 256, (n \div 256) % 256, 0, 0 >>

\* struct.pack("<I", n)
Pack(n) ==
    << n % 256, (n \div 256) % 256, (n \div 65536) % 256, (n \div 16777216) % 256 >>

\* struct.unpack("<I", header)[0]
Unpack(h) ==
    h[1] + 256 * h[2] + 65536 * h[3] + 16777216 * h[4]

\* str.encode("utf-8") of one code point
Utf8Char(cp) ==
    IF cp < 128 THEN << cp >>
    ELSE IF cp < 2048 THEN << 192 + (cp \div 64), 128 + (cp % 64) >>
    ELSE IF cp < 65536 THEN
        << 224 + (cp \div 4096), 128 + ((cp \div 64) % 64), 128 + (cp % 64) >>
    ELSE
        << 240 + (cp \div 262144), 128 + ((cp \div 4096) % 64),
           128 + ((cp \div 64) % 64), 128 + (cp % 64) >>

RECURSIVE Utf8(_)
\* str.encode("utf-8")
Utf8(s) ==
    IF s = <<>> THEN <<>> ELSE Utf8Char(Head(s)) \o Utf8(Tail(s))

\* str.isspace() for one code point
IsSpace(cp) ==
    cp \in {9, 10, 11, 12, 13, 28, 29, 30, 31, 32, 133, 160}

RECURSIVE LStrip(_)
LStrip(s) ==
    IF s # <<>> /\ IsSpace(Head(s)) THEN LStrip(Tail(s)) ELSE s

RECURSIVE RStrip(_)
RStrip(s) ==
    IF s # <<>> /\ IsSpace(s[Len(s)]) THEN RStrip(SubSeq(s, 1, Len(s) - 1)) ELSE s

\* str.strip()
Strip(s) == RStrip(LStrip(s))

RECURSIVE Join(_)
\* " ".join(str(item) for item in result)
Join(items) ==
    IF items = <<>> THEN <<>>
    ELSE IF Len(items) = 1 THEN items[1]
    ELSE items[1] \o <<32>> \o Join(Tail(items))

\* ---------------------------------------------------------- Audio decoder
Raise(msg) == [ok |-> FALSE, err |-> msg, audio |-> <<>>]

Return(audio) == [ok |-> TRUE, err |-> <<>>, audio |-> audio]

\* wave.open(BytesIO(wav_bytes), "rb"): the error it raises, or the header
\* fields the Wave_read object then reports.  The sample width it reports is
\* the bits-per-sample field of the fmt chunk rounded up to whole bytes.
wave_open(c) ==
    IF c.hdr # "RIFF" THEN
        IF Len(c.data) < 8 THEN [ok |-> FALSE, err |-> <<>>]    \* EOFError()
        ELSE [ok |-> FALSE, err |-> MsgNotRiff]
    ELSE IF (c.bits + 7) \div 8 = 0 THEN [ok |-> FALSE, err |-> MsgBadWidth]
    ELSE IF c.nchannels = 0 THEN [ok |-> FALSE, err |-> MsgBadChannels]
    ELSE [ok |-> TRUE, err |-> <<>>,
          nchannels |-> c.nchannels,
          sampwidth |-> (c.bits + 7) \div 8,
          framerate |-> c.rate,
          nframes   |-> Len(c.data) \div (c.nchannels * ((c.bits + 7) \div 8))]

\* wf.readframes(n): the first n whole frames of the data chunk
readframes(c, wf, n) ==
    SubSeq(c.data, 1, n * wf.nchannels * wf.sampwidth)

\* Variant: the two bytes are read as an unsigned integer.
Int16Unsigned(lo, hi) == lo + 256 * hi

\* one little-endian signed 16-bit integer
Int16(lo, hi) ==
    IF lo + 256 * hi >= 32768 THEN lo + 256 * hi - 65536 ELSE lo + 256 * hi

\* np.frombuffer(pcm, dtype=np.int16).astype(np.float32) / 32768.0
ToFloat(pcm) ==
    [i \in 1..(Len(pcm) \div 2) |-> << Int16(pcm[2 * i - 1], pcm[2 * i]), 32768 >>]

decode_wav_bytes(c) ==
    LET wf == wave_open(c) IN
    IF ~wf.ok THEN Raise(wf.err)
    ELSE IF wf.nchannels # 1 \/ wf.sampwidth # 2 THEN Raise(MsgMono16)
    ELSE IF wf.framerate # SAMPLE_RATE THEN Raise(MsgRate)
    ELSE Return(ToFloat(readframes(c, wf, wf.nframes)))

\* ----------------------------------------------------------- Frame codec
Frame(body) == [kind |-> "frame", hdr |-> Pack(Len(body)), body |-> body]

Line(text) == [kind |-> "line", hdr |-> <<>>, body |-> Utf8(text)]

\* Variant: the zero-length frame is handed to the decoder like any other
\* and answered with the error frame of an empty container.
PingReplyError ==
    [kind |-> "frame", hdr |-> Pack(Len(ErrorPrefix)), body |-> Utf8(ErrorPrefix)]

\* out.write(struct.pack("<I", 0))
PingReply == [kind |-> "frame", hdr |-> Pack(0), body |-> <<>>]

\* Variant: the text is encoded without being trimmed.
ResultTextNoStrip(ans) ==
    Utf8(IF ans.kind = "list" THEN Join(ans.items) ELSE ans.items[1])

\* str(result).strip().encode("utf-8"), after the list join
ResultText(ans) ==
    Utf8(Strip(IF ans.kind = "list" THEN Join(ans.items) ELSE ans.items[1]))

\* Variant: the message is sent without the sentinel prefix.
ErrorTextNoPrefix(msg) == Utf8(msg)

\* f"ERROR: {exc}".encode("utf-8")
ErrorText(msg) == Utf8(ErrorPrefix \o msg)

\* ------------------------------------------------------------------ state
VARIABLES
    pc,          \* position of the single thread of execution
    pathExists,  \* model_path().exists()
    model,       \* "none" or "loaded": the handle run_worker holds
    loadLog,     \* what load_asr_model did, in order
    stdout,      \* everything written to standard output, in order
    flushed,     \* how many of those writes have been flushed to the peer
    stdinReads,  \* number of read calls made on standard input
    inbox,       \* the fully received request frames, in order
    outcomes,    \* how the processing of each of them ended, in order
    header,      \* run_worker's local: header
    length,      \* run_worker's local: length
    got,         \* len(payload) as returned by buf.read(length)
    payload,     \* run_worker's local: payload, when fully received
    audio,       \* run_worker's local: audio
    result,      \* run_worker's local: result (what recognize returned)
    exc,         \* the exception caught by the handler of the request
    decoded,     \* the arguments of the calls of decode_wav_bytes, in order
    recognized,  \* the arguments of the calls of model.recognize, in order
    uncaught,    \* the exception that left main(), if any
    exitStatus,  \* process exit status, -1 until the process ends
    worker,      \* "--worker" in sys.argv
    stderr,      \* the lines printed to sys.stderr, in order
    env,         \* os.environ, for the variables the program reads
    env0,        \* os.environ as it was when the process started
    dirs,        \* the directories that exist, of those the program makes
    path,        \* load_asr_model's local: path (<<>> before it is set)
    configured,  \* number of calls of configure_hf_cache so far
    imported,    \* import onnx_asr has been executed
    wire,        \* bytes written to a pipe and not yet read from it (blocks)
    sent,        \* the payload given to the frame writer (blocks)
    rcvd         \* what the frame reader returned for it (blocks)

vars ==
    << pc, pathExists, model, loadLog, stdout, flushed, stdinReads, inbox,
       outcomes, header, length, got, payload, audio, result, exc, decoded,
       recognized, uncaught, exitStatus, worker, stderr, env, env0, dirs,
       path, configured, imported, wire, sent, rcvd >>

NoPayload == Junk(<<>>)

\* How the processing of one received frame ended: the exception raised
\* inside the try block (raised, msg), and what model.recognize did (ans).
Outcome(raised, msg, ans) == [raised |-> raised, msg |-> msg, ans |-> ans]

\* One step of load_asr_model: ev is "load" (a call of onnx_asr.load_model),
\* "rmtree" or "raise"; after is path.exists() when the step ends.
LogEv(ev, ok, after) ==
    [ev |-> ev, ok |-> ok, after |-> after]

loaderVars == << pathExists, model, loadLog >>

frameVars == << header, length, got, payload, audio, result, exc >>

callVars == << decoded, recognized >>

ioVars == << stdout, flushed, stdinReads, inbox, outcomes >>

startVars == << worker, env, env0, dirs, path, configured, imported >>

codecVars == << wire, sent, rcvd >>

\* What the loader and the worker loop never write.
outerVars == << startVars, codecVars, stderr >>

\* ------------------------------------------------ environment and paths
\* A path is the sequence of its components; the value of an environment
\* variable is a path or the empty string (<<>>), or the variable is unset.
Unset == [set |-> FALSE, val |-> <<>>]

Str(v) == [set |-> TRUE, val |-> v]

EnvNames ==
    {"LOCALAPPDATA", "HF_HOME", "HUGGINGFACE_HUB_CACHE", "XDG_CACHE_HOME",
     "VTYPE_MODEL_PATH"}

MODEL_NAME == "nemo-parakeet-tdt-0.6b-v3"

\* tempfile.gettempdir()
TempDir == <<"tmp">>

\* bool(os.getenv(name)): set and not the empty string
Truthy(e, name) == e[name].set /\ e[name].val # <<>>

app_base_path(e) ==
    IF Truthy(e, "LOCALAPPDATA")
    THEN Append(e["LOCALAPPDATA"].val, "vtype")
    ELSE Append(TempDir, "vtype")

\* configure_hf_cache's locals
hf_home(e) == Append(app_base_path(e), "hf")

hf_hub_cache(e) == Append(hf_home(e), "hub")

xdg_cache(e) == Append(app_base_path(e), "xdg-cache")

model_path(e) ==
    IF Truthy(e, "VTYPE_MODEL_PATH")
    THEN e["VTYPE_MODEL_PATH"].val
    ELSE Append(Append(app_base_path(e), "models"), MODEL_NAME)

\* Path.parent
Parent(p) == SubSeq(p, 1, Len(p) - 1)

\* Path.mkdir(parents=True, exist_ok=True), when it succeeds
Mkdir(ds, p) == ds \cup { SubSeq(p, 1, k) : k \in 1..Len(p) }

\* Variant: the variable is set whether or not it already has a value.
setdefaultOverwrite(e, name, p) == [e EXCEPT ![name] = Str(p)]

\* os.environ.setdefault(name, str(p))
setdefault(e, name, p) ==
    IF e[name].set THEN e ELSE [e EXCEPT ![name] = Str(p)]

\* The directories configure_hf_cache and load_asr_model make under e.
MadeDirs(e) ==
    Mkdir(Mkdir(Mkdir(Mkdir({}, hf_home(e)), hf_hub_cache(e)), xdg_cache(e)),
          Parent(model_path(e)))

\* No variable set.
BareEnv == [n \in EnvNames |-> Unset]

Init ==
    /\ pc = "configure"
    /\ pathExists \in BOOLEAN
    /\ model = "none"
    /\ loadLog = <<>>
    /\ stdout = <<>>
    /\ flushed = 0
    /\ stdinReads = 0
    /\ inbox = <<>>
    /\ outcomes = <<>>
    /\ header = <<>>
    /\ length = 0
    /\ got = 0
    /\ payload = NoPayload
    /\ audio = <<>>
    /\ result = NoAnswer
    /\ exc = <<>>
    /\ decoded = <<>>
    /\ recognized = <<>>
    /\ uncaught = "none"
    /\ exitStatus = -1
    /\ worker \in BOOLEAN
    /\ stderr = <<>>
    /\ env = BareEnv
    /\ env0 = env
    /\ dirs = MadeDirs(env)
    /\ path = <<>>
    /\ configured = 0
    /\ imported = FALSE
    /\ wire = <<>>
    /\ sent = <<>>
    /\ rcvd = <<>>

\* Variant: the failure is swallowed and the process ends with status 0.
DieQuietly(name) ==
    /\ pc' = "exited"
    /\ uncaught' = name
    /\ exitStatus' = 0

\* An exception leaves main(): the interpreter prints it and exits with 1.
Die(name) ==
    /\ pc' = "exited"
    /\ uncaught' = name
    /\ exitStatus' = 1

\* main() returns status; raise SystemExit(status).
Exit(status) ==
    /\ pc' = "exited"
    /\ uncaught' = "none"
    /\ exitStatus' = status

\* ---------------------------------------------------------- module start
\* configure_hf_cache(), called when the module is executed.  A mkdir of a
\* directory that does not exist yet may raise (no permission, a file in
\* the way) and the exception leaves the module; done is the number of
\* mkdir calls that returned.
ConfigureHfCache ==
    /\ pc = "configure"
    /\ configured' = configured + 1
    /\ \E done \in 0..3 :
        LET d1 == IF done >= 1 THEN Mkdir(dirs, hf_home(env)) ELSE dirs
            d2 == IF done >= 2 THEN Mkdir(d1, hf_hub_cache(env)) ELSE d1
            d3 == IF done >= 3 THEN Mkdir(d2, xdg_cache(env)) ELSE d2
        IN  /\ done = 0 => hf_home(env) \notin dirs
            /\ done = 1 => hf_hub_cache(env) \notin d1
            /\ done = 2 => xdg_cache(env) \notin d2
            /\ dirs' = d3
            /\ IF done = 3
               THEN /\ env' = setdefault(setdefault(setdefault(env,
                                 "HF_HOME", hf_home(env)),
                                 "HUGGINGFACE_HUB_CACHE", hf_hub_cache(env)),
                                 "XDG_CACHE_HOME", xdg_cache(env))
                    /\ pc' = "import"
                    /\ UNCHANGED << uncaught, exitStatus >>
               ELSE /\ env' = env
                    /\ Die("OSError")
    /\ UNCHANGED << loaderVars, ioVars, frameVars, callVars, worker, env0, path,
                    imported, codecVars, stderr >>

\* import onnx_asr, the statement after the call of configure_hf_cache.
ImportOnnxAsr ==
    /\ pc = "import"
    /\ imported' = TRUE
    /\ \E ok \in BOOLEAN :
        IF ok
        THEN /\ pc' = "main"
             /\ UNCHANGED << uncaught, exitStatus >>
        ELSE Die("ImportError")
    /\ UNCHANGED << loaderVars, ioVars, frameVars, callVars, worker, env, env0,
                    dirs, path, configured, codecVars, stderr >>

\* ------------------------------------------------------------------ main
\* Variant: readiness is announced before the model is loaded.
MainReadyFirst ==
    /\ pc = "main"
    /\ stdout' = Append(stdout, Line(ReadyLine))
    /\ flushed' = Len(stdout')
    /\ pc' = IF worker THEN "load_enter" ELSE "oneshot_read"
    /\ UNCHANGED << loaderVars, stdinReads, inbox, outcomes, frameVars,
                    callVars, uncaught, exitStatus >>
    /\ UNCHANGED outerVars

\* if "--worker" in sys.argv: return run_worker(), which starts with
\* load_asr_model(); otherwise the one-shot path starts by reading stdin.
Main ==
    /\ pc = "main"
    /\ pc' = IF worker THEN "load_enter" ELSE "oneshot_read"
    /\ UNCHANGED << loaderVars, ioVars, frameVars, callVars, uncaught, exitStatus >>
    /\ UNCHANGED outerVars

\* ----------------------------------------------------------- Model loader
\* Variant: the parent directory of the model path is not made.
LoadEnterNoMkdir ==
    /\ pc = "load_enter"
    /\ path' = model_path(env)
    /\ dirs' = dirs
    /\ pc' = "load_first"
    /\ UNCHANGED << uncaught, exitStatus >>
    /\ UNCHANGED << loaderVars, ioVars, frameVars, callVars, worker, env, env0,
                    configured, imported, codecVars, stderr >>

\* path = model_path(); path.parent.mkdir(parents=True, exist_ok=True)
LoadEnter ==
    /\ pc = "load_enter"
    /\ path' = model_path(env)
    /\ \E ok \in BOOLEAN :
        /\ ~ok => Parent(path') \notin dirs
        /\ IF ok
           THEN /\ dirs' = Mkdir(dirs, Parent(path'))
                /\ pc' = "load_first"
                /\ UNCHANGED << uncaught, exitStatus >>
           ELSE /\ dirs' = dirs
                /\ Die("OSError")
    /\ UNCHANGED << loaderVars, ioVars, frameVars, callVars, worker, env, env0,
                    configured, imported, codecVars, stderr >>

\* First onnx_asr.load_model(MODEL_NAME, path=path).  A load that succeeds
\* has the model files under path; one that fails may have left some there.
LoadFirst ==
    /\ pc = "load_first"
    /\ \E ok \in BOOLEAN, created \in BOOLEAN :
        /\ pathExists' = (pathExists \/ ok \/ created)
        /\ loadLog' = Append(loadLog, LogEv("load", ok, pathExists'))
        /\ IF ok
           THEN /\ model' = "loaded"
                /\ pc' = IF worker THEN "ready" ELSE "oneshot_recognize"
           ELSE /\ model' = model
                /\ pc' = "load_except"
    /\ UNCHANGED << ioVars, frameVars, callVars, uncaught, exitStatus >>
    /\ UNCHANGED outerVars

\* Variant: the retry is made whether or not the path exists.
LoadExceptAlwaysRetry ==
    /\ pc = "load_except"
    /\ \E removed \in BOOLEAN :
        /\ pathExists' = (pathExists /\ ~removed)
        /\ loadLog' = Append(loadLog, LogEv("rmtree", removed, pathExists'))
    /\ pc' = "load_retry"
    /\ UNCHANGED << model, ioVars, frameVars, callVars, uncaught, exitStatus >>
    /\ UNCHANGED outerVars

\* except Exception: if path.exists(): shutil.rmtree(path, ignore_errors=True)
\* and go on to the retry; otherwise re-raise.  With ignore_errors the
\* removal may fail silently and leave the path in place.
LoadExcept ==
    /\ pc = "load_except"
    /\ IF pathExists
       THEN /\ \E removed \in BOOLEAN :
                /\ pathExists' = ~removed
                /\ loadLog' = Append(loadLog, LogEv("rmtree", removed, ~removed))
            /\ pc' = "load_retry"
            /\ UNCHANGED << uncaught, exitStatus >>
       ELSE /\ loadLog' = Append(loadLog, LogEv("raise", FALSE, pathExists))
            /\ pathExists' = pathExists
            /\ Die("load_model")
    /\ UNCHANGED << model, ioVars, frameVars, callVars >>
    /\ UNCHANGED outerVars

\* return onnx_asr.load_model(MODEL_NAME, path=path), inside the handler:
\* its error is not caught.
LoadRetry ==
    /\ pc = "load_retry"
    /\ \E ok \in BOOLEAN, created \in BOOLEAN :
        /\ pathExists' = (pathExists \/ ok \/ created)
        /\ IF ok
           THEN /\ loadLog' = Append(loadLog, LogEv("load", TRUE, pathExists'))
                /\ model' = "loaded"
                /\ pc' = IF worker THEN "ready" ELSE "oneshot_recognize"
                /\ UNCHANGED << uncaught, exitStatus >>
           ELSE /\ loadLog' = loadLog \o
                        << LogEv("load", FALSE, pathExists'),
                           LogEv("raise", FALSE, pathExists') >>
                /\ model' = model
                /\ Die("load_model")
    /\ UNCHANGED << ioVars, frameVars, callVars >>
    /\ UNCHANGED outerVars

\* ------------------------------------------------------------ Worker loop
\* sys.stdout.write("ready\n"); sys.stdout.flush()
WriteReady ==
    /\ pc = "ready"
    /\ stdout' = Append(stdout, Line(ReadyLine))
    /\ flushed' = Len(stdout')
    /\ pc' = "read_header"
    /\ UNCHANGED << loaderVars, stdinReads, inbox, outcomes, frameVars,
                    callVars, uncaught, exitStatus >>
    /\ UNCHANGED outerVars

\* if not header: break (run_worker returns 0); otherwise
\* struct.unpack("<I", header) on 1 to 3 bytes raises struct.error, outside
\* the try block.
OnShortHeader(h) ==
    IF h = <<>> THEN Exit(0) ELSE Die("struct.error")

\* header = buf.read(4); if not header: break; length = unpack(header)
ReadHeader ==
    /\ pc = "read_header"
    /\ stdinReads' = stdinReads + 1
    /\ \/ \E h \in PartialHeaders :
            /\ header' = h
            /\ length' = length
            /\ inbox' = inbox
            /\ outcomes' = outcomes
            /\ OnShortHeader(h)
       \/ /\ Len(inbox) < MaxFrames
          /\ \E n \in {0} \cup { ByteLen(c) : c \in Containers } :
                /\ header' = Pack(n)
                /\ length' = Unpack(header')
                /\ IF length' = 0
                   THEN /\ inbox' = Append(inbox, [length |-> 0, payload |-> NoPayload])
                        /\ outcomes' = Append(outcomes, Outcome(FALSE, <<>>, NoAnswer))
                        /\ pc' = "ping"
                   ELSE /\ inbox' = inbox
                        /\ outcomes' = outcomes
                        /\ pc' = "read_payload"
                /\ UNCHANGED << uncaught, exitStatus >>
    /\ UNCHANGED << loaderVars, stdout, flushed, got, payload, audio, result,
                    exc, callVars >>
    /\ UNCHANGED outerVars

\* Variant: the zero-length frame is skipped without a reply.
WritePingSilent ==
    /\ pc = "ping"
    /\ pc' = "read_header"
    /\ UNCHANGED << loaderVars, ioVars, frameVars, callVars, uncaught, exitStatus >>
    /\ UNCHANGED outerVars

\* if length == 0: out.write(struct.pack("<I", 0)); out.flush(); continue
WritePing ==
    /\ pc = "ping"
    /\ stdout' = Append(stdout, PingReply)
    /\ flushed' = Len(stdout')
    /\ pc' = "read_header"
    /\ UNCHANGED << loaderVars, stdinReads, inbox, outcomes, frameVars,
                    callVars, uncaught, exitStatus >>
    /\ UNCHANGED outerVars

\* Variant: a truncated payload is reported as an error of the process.
OnShortPayloadRaise == Die("EOFError")

\* if len(payload) < length: break; run_worker returns 0
OnShortPayload == Exit(0)

\* payload = buf.read(length); if len(payload) < length: break
ReadPayload ==
    /\ pc = "read_payload"
    /\ stdinReads' = stdinReads + 1
    /\ \/ /\ \E n \in {0, length - 1} : got' = n
          /\ payload' = NoPayload
          /\ inbox' = inbox
          /\ OnShortPayload
       \/ \E c \in Containers :
            /\ ByteLen(c) = length
            /\ got' = length
            /\ payload' = c
            /\ inbox' = Append(inbox, [length |-> length, payload |-> c])
            /\ pc' = "decode"
            /\ UNCHANGED << uncaught, exitStatus >>
    /\ UNCHANGED << loaderVars, stdout, flushed, outcomes, header, length,
                    audio, result, exc, callVars >>
    /\ UNCHANGED outerVars

\* try: audio = decode_wav_bytes(payload)
Decode ==
    /\ pc = "decode"
    /\ decoded' = Append(decoded, payload)
    /\ LET r == decode_wav_bytes(payload) IN
        IF r.ok
        THEN /\ audio' = r.audio
             /\ exc' = exc
             /\ outcomes' = outcomes
             /\ pc' = "recognize"
        ELSE /\ audio' = audio
             /\ exc' = r.err
             /\ outcomes' = Append(outcomes, Outcome(TRUE, r.err, NoAnswer))
             /\ pc' = "error"
    /\ UNCHANGED << loaderVars, stdout, flushed, stdinReads, inbox, header,
                    length, got, payload, result, recognized, uncaught, exitStatus >>
    /\ UNCHANGED outerVars

\* result = model.recognize(audio, sample_rate=SAMPLE_RATE)
Recognize ==
    /\ pc = "recognize"
    /\ recognized' = Append(recognized, audio)
    /\ \E ans \in Answers :
        IF ans.kind = "raise"
        THEN /\ exc' = ans.items[1]
             /\ result' = result
             /\ outcomes' = Append(outcomes, Outcome(TRUE, ans.items[1], ans))
             /\ pc' = "error"
        ELSE /\ result' = ans
             /\ exc' = exc
             /\ outcomes' = Append(outcomes, Outcome(FALSE, <<>>, ans))
             /\ pc' = "respond"
    /\ UNCHANGED << loaderVars, stdout, flushed, stdinReads, inbox, header,
                    length, got, payload, audio, decoded, uncaught, exitStatus >>
    /\ UNCHANGED outerVars

\* Variant: an error of an earlier request sticks and is reported again.
WriteResultSticky ==
    /\ pc = "respond"
    /\ stdout' = Append(stdout,
                        IF exc # <<>> THEN Frame(ErrorText(exc))
                        ELSE Frame(ResultText(result)))
    /\ flushed' = Len(stdout')
    /\ pc' = "read_header"
    /\ UNCHANGED << loaderVars, stdinReads, inbox, outcomes, frameVars,
                    callVars, uncaught, exitStatus >>
    /\ UNCHANGED outerVars

\* text = ...; out.write(struct.pack("<I", len(text))); out.write(text);
\* out.flush()
WriteResult ==
    /\ pc = "respond"
    /\ stdout' = Append(stdout, Frame(ResultText(result)))
    /\ flushed' = Len(stdout')
    /\ pc' = "read_header"
    /\ UNCHANGED << loaderVars, stdinReads, inbox, outcomes, frameVars,
                    callVars, uncaught, exitStatus >>
    /\ UNCHANGED outerVars

\* Variant: the error frame is written but left in the buffer.
WriteErrorNoFlush ==
    /\ pc = "error"
    /\ stdout' = Append(stdout, Frame(ErrorText(exc)))
    /\ pc' = "read_header"
    /\ UNCHANGED << loaderVars, flushed, stdinReads, inbox, outcomes, frameVars,
                    callVars, uncaught, exitStatus >>
    /\ UNCHANGED outerVars

\* except Exception as exc: err = ...; out.write(pack(len(err)));
\* out.write(err); out.flush()
WriteError ==
    /\ pc = "error"
    /\ stdout' = Append(stdout, Frame(ErrorText(exc)))
    /\ flushed' = Len(stdout')
    /\ pc' = "read_header"
    /\ UNCHANGED << loaderVars, stdinReads, inbox, outcomes, frameVars,
                    callVars, uncaught, exitStatus >>
    /\ UNCHANGED outerVars

\* ------------------------------------------------------------- One shot
\* repr of a str without quotes, backslashes or unprintable characters
Repr(t) == <<39>> \o t \o <<39>>

RECURSIVE ReprJoin(_)
\* ", ".join(repr(x) for x in items)
ReprJoin(items) ==
    IF items = <<>> THEN <<>>
    ELSE IF Len(items) = 1 THEN Repr(items[1])
    ELSE Repr(items[1]) \o <<44, 32>> \o ReprJoin(Tail(items))

\* str(text), as print applies it to what model.recognize returned
PyStr(ans) ==
    IF ans.kind = "list" THEN <<91>> \o ReprJoin(ans.items) \o <<93>>
    ELSE ans.items[1]

\* wav_bytes = sys.stdin.buffer.read(); if not wav_bytes: print(...,
\* file=sys.stderr); return 1
OneShotRead ==
    /\ pc = "oneshot_read"
    /\ stdinReads' = stdinReads + 1
    /\ \E c \in Containers \cup {NoPayload} :
        /\ payload' = c
        /\ IF ByteLen(c) = 0
           THEN /\ stderr' = Append(stderr, MsgMissing \o <<10>>)
                /\ Exit(1)
           ELSE /\ stderr' = stderr
                /\ pc' = "oneshot_decode"
                /\ UNCHANGED << uncaught, exitStatus >>
    /\ UNCHANGED << loaderVars, stdout, flushed, inbox, outcomes, header,
                    length, got, audio, result, exc, callVars, startVars,
                    codecVars >>

\* audio = decode_wav_bytes(wav_bytes), outside any try block
OneShotDecode ==
    /\ pc = "oneshot_decode"
    /\ decoded' = Append(decoded, payload)
    /\ LET r == decode_wav_bytes(payload) IN
        IF r.ok
        THEN /\ audio' = r.audio
             /\ pc' = "load_enter"
             /\ UNCHANGED << uncaught, exitStatus >>
        ELSE /\ audio' = audio
             /\ Die("decode_wav_bytes")
    /\ UNCHANGED << loaderVars, ioVars, header, length, got, payload, result,
                    exc, recognized, outerVars >>

\* text = model.recognize(audio, sample_rate=SAMPLE_RATE), outside any try
OneShotRecognize ==
    /\ pc = "oneshot_recognize"
    /\ recognized' = Append(recognized, audio)
    /\ \E ans \in Answers :
        IF ans.kind = "raise"
        THEN /\ result' = result
             /\ Die("recognize")
        ELSE /\ result' = ans
             /\ pc' = "oneshot_print"
             /\ UNCHANGED << uncaught, exitStatus >>
    /\ UNCHANGED << loaderVars, ioVars, header, length, got, payload, audio,
                    exc, decoded, outerVars >>

\* print(text); return 0.  The interpreter flushes stdout when it exits.
OneShotPrint ==
    /\ pc = "oneshot_print"
    /\ stdout' = Append(stdout, Line(PyStr(result) \o <<10>>))
    /\ flushed' = Len(stdout')
    /\ Exit(0)
    /\ UNCHANGED << loaderVars, stdinReads, inbox, outcomes, frameVars,
                    callVars, outerVars >>

Next ==
    \/ ConfigureHfCache
    \/ ImportOnnxAsr
    \/ Main
    \/ LoadEnter
    \/ LoadFirst
    \/ LoadExcept
    \/ LoadRetry
    \/ WriteReady
    \/ ReadHeader
    \/ WritePing
    \/ ReadPayload
    \/ Decode
    \/ Recognize
    \/ WriteResult
    \/ WriteError
    \/ OneShotRead
    \/ OneShotDecode
    \/ OneShotRecognize
    \/ OneShotPrint

Spec == Init /\ [][Next]_vars

\* ------------------------------------------- start-up in any environment
\* The environments the process may be started in: each variable unset, set
\* to the empty string (where the program tests the value) or set to a path.
Envs ==
    { [n \in EnvNames |->
          CASE n = "LOCALAPPDATA" -> la
            [] n = "HF_HOME" -> hh
            [] n = "HUGGINGFACE_HUB_CACHE" -> hc
            [] n = "XDG_CACHE_HOME" -> xc
            [] OTHER -> mp ] :
      la \in {Unset, Str(<<>>), Str(<<"C:", "Local">>)},
      hh \in {Unset, Str(<<>>), Str(<<"d", "hf">>)},
      hc \in {Unset, Str(<<"d", "hub">>)},
      xc \in {Unset, Str(<<"d", "xdg">>)},
      mp \in {Unset, Str(<<>>), Str(<<"m", "model">>)} }

\* The process starts in any environment of Envs, with none of the
\* directories it makes or with all of them; the model path can exist only
\* if its parent does.
StartupInit ==
    /\ pc = "configure"
    /\ env \in Envs
    /\ env0 = env
    /\ dirs \in { {}, MadeDirs(env) }
    /\ pathExists \in { b \in BOOLEAN : b => dirs # {} }
    /\ worker \in BOOLEAN
    /\ model = "none"
    /\ loadLog = <<>>
    /\ stdout = <<>>
    /\ flushed = 0
    /\ stdinReads = 0
    /\ inbox = <<>>
    /\ outcomes = <<>>
    /\ header = <<>>
    /\ length = 0
    /\ got = 0
    /\ payload = NoPayload
    /\ audio = <<>>
    /\ result = NoAnswer
    /\ exc = <<>>
    /\ decoded = <<>>
    /\ recognized = <<>>
    /\ uncaught = "none"
    /\ exitStatus = -1
    /\ stderr = <<>>
    /\ path = <<>>
    /\ configured = 0
    /\ imported = FALSE
    /\ wire = <<>>
    /\ sent = <<>>
    /\ rcvd = <<>>

\* The steps up to the end of load_asr_model, in either mode.
StartupNext ==
    \/ ConfigureHfCache
    \/ ImportOnnxAsr
    \/ Main
    \/ OneShotRead
    \/ OneShotDecode
    \/ LoadEnter
    \/ LoadFirst
    \/ LoadExcept
    \/ LoadRetry

StartupSpec == StartupInit /\ [][StartupNext]_vars

\* ------------------------------------------------- the components alone
\* The variables a single call of a component leaves at their first values.
Quiet ==
    /\ pathExists = TRUE
    /\ model = "loaded"
    /\ loadLog = <<>>
    /\ stdout = <<>>
    /\ flushed = 0
    /\ stdinReads = 0
    /\ inbox = <<>>
    /\ outcomes = <<>>
    /\ header = <<>>
    /\ length = 0
    /\ got = 0
    /\ audio = <<>>
    /\ exc = <<>>
    /\ decoded = <<>>
    /\ recognized = <<>>
    /\ uncaught = "none"
    /\ exitStatus = -1
    /\ worker = TRUE
    /\ stderr = <<>>
    /\ env = setdefault(setdefault(setdefault(BareEnv,
                 "HF_HOME", hf_home(BareEnv)),
                 "HUGGINGFACE_HUB_CACHE", hf_hub_cache(BareEnv)),
                 "XDG_CACHE_HOME", xdg_cache(BareEnv))
    /\ env0 = BareEnv
    /\ dirs = MadeDirs(BareEnv)
    /\ path = model_path(BareEnv)
    /\ configured = 1
    /\ imported = TRUE
    /\ wire = <<>>
    /\ rcvd = <<>>

\* decode_wav_bytes called on any container of DecodeInputs.
DecodeInit ==
    /\ Quiet
    /\ pc = "decode"
    /\ payload \in DecodeInputs
    /\ result = NoAnswer
    /\ sent = <<>>

DecodeNext == Decode

DecodeSpec == DecodeInit /\ [][DecodeNext]_vars

\* A frame written the way the loop writes one and read back the way the
\* loop reads one, through a pipe that holds the bytes in between.
\* Lengths around the byte boundaries of the 4-byte prefix.
FrameLens == {0, 1, 2, 3, 4, 5, 255, 256, 257, 65535, 65536}

\* n bytes, the i-th being i * k modulo 256.
Fill(n, k) == [i \in 1..n |-> (i * k) % 256]

\* The three byte strings of the pipe are held as their consecutive blocks
\* of 256 bytes, the last one shorter: Blocks(b) are the blocks of the byte
\* string b and Bytes(r) is the byte string of the blocks r.
Blocks(b) ==
    LET t == SubSeq(b, 1, Len(b)) IN
    [j \in 1..((Len(t) + 255) \div 256) |->
        SubSeq(t, 256 * (j - 1) + 1, IF 256 * j < Len(t) THEN 256 * j ELSE Len(t))]

RECURSIVE Cat(_, _, _)
\* The blocks lo to hi of r, concatenated.
Cat(r, lo, hi) ==
    IF lo > hi THEN <<>>
    ELSE IF lo = hi THEN r[lo]
    ELSE LET mid == (lo + hi) \div 2 IN Cat(r, lo, mid) \o Cat(r, mid + 1, hi)

Bytes(r) == Cat(r, 1, Len(r))

FramePayloads == { Blocks(Fill(n, k)) : n \in FrameLens, k \in {0, 1, 7, 255} }

CodecInit ==
    /\ Quiet
    /\ pc = "frame_write"
    /\ payload = NoPayload
    /\ result = NoAnswer
    /\ sent \in FramePayloads

\* out.write(struct.pack("<I", len(encoded)) + encoded); out.flush()
FrameWrite ==
    /\ pc = "frame_write"
    /\ LET f == Frame(Bytes(sent)) IN
          wire' = Blocks(Bytes(wire) \o f.hdr \o f.body)
    /\ pc' = "frame_read_header"
    /\ UNCHANGED << loaderVars, ioVars, frameVars, callVars, startVars, stderr,
                    sent, rcvd, uncaught, exitStatus >>

\* header = buf.read(4); if not header: break;
\* length = struct.unpack("<I", header)[0]; a zero length has no payload.
FrameReadHeader ==
    /\ pc = "frame_read_header"
    /\ LET w == Bytes(wire) IN
          /\ header' = SubSeq(w, 1, IF Len(w) < 4 THEN Len(w) ELSE 4)
          /\ wire' = Blocks(SubSeq(w, Len(header') + 1, Len(w)))
    /\ IF header' = <<>>
       THEN /\ pc' = "frame_eof"
            /\ UNCHANGED << length, rcvd >>
       ELSE IF Len(header') < 4
       THEN /\ pc' = "frame_error"
            /\ UNCHANGED << length, rcvd >>
       ELSE /\ length' = Unpack(header')
            /\ IF length' = 0
               THEN /\ rcvd' = Blocks(<<>>)
                    /\ pc' = "frame_done"
               ELSE /\ rcvd' = rcvd
                    /\ pc' = "frame_read_payload"
    /\ UNCHANGED << loaderVars, ioVars, got, payload, audio, result, exc,
                    callVars, startVars, stderr, sent, uncaught, exitStatus >>

\* payload = buf.read(length); if len(payload) < length: break
FrameReadPayload ==
    /\ pc = "frame_read_payload"
    /\ LET w == Bytes(wire) IN
          /\ got' = IF Len(w) < length THEN Len(w) ELSE length
          /\ wire' = Blocks(SubSeq(w, got' + 1, Len(w)))
          /\ IF got' < length
             THEN /\ rcvd' = rcvd
                  /\ pc' = "frame_eof"
             ELSE /\ rcvd' = Blocks(SubSeq(w, 1, got'))
                  /\ pc' = "frame_done"
    /\ UNCHANGED << loaderVars, ioVars, header, length, payload, audio, result,
                    exc, callVars, startVars, stderr, sent, uncaught, exitStatus >>

CodecNext ==
    \/ FrameWrite
    \/ FrameReadHeader
    \/ FrameReadPayload

CodecSpec == CodecInit /\ [][CodecNext]_vars

\* The success path of the loop after model.recognize returned any value of
\* Results.
RespondInit ==
    /\ Quiet
    /\ pc = "respond"
    /\ payload = NoPayload
    /\ result \in Results
    /\ sent = <<>>

RespondNext == WriteResult

RespondSpec == RespondInit /\ [][RespondNext]_vars

\* -------------------------------------------------------------- properties
IsFrame(w) == w.kind = "frame"

\* The response frames on standard output, in the order written.
OutFrames == SelectSeq(stdout, IsFrame)

NumResponses == Len(OutFrames)

\* C1: in worker mode with the model loaded, every fully received non-empty
\* frame whose decoding or recognition raised is answered by one frame whose
\* payload is the UTF-8 text "ERROR: " followed by the message; until that
\* frame is written the worker is in the handler, the write takes it back to
\* reading the next header without ending the process, and the process never
\* ends with a raised request unanswered.
C1_Caught ==
    \A k \in 1..Len(outcomes) :
        outcomes[k].raised =>
            /\ inbox[k].length > 0
            /\ model = "loaded"
            /\ IF k <= NumResponses
               THEN /\ OutFrames[k].body =
                          <<69, 82, 82, 79, 82, 58, 32>> \o Utf8(outcomes[k].msg)
                    /\ Unpack(OutFrames[k].hdr) = Len(OutFrames[k].body)
               ELSE /\ k = Len(outcomes)
                    /\ pc = "error"
                    /\ pc # "exited"

C1_Continues ==
    pc = "error" =>
        /\ pc' = "read_header"
        /\ pc' # "exited"
        /\ NumResponses' = NumResponses + 1

C1_ErrorFrameAndContinue == []C1_Caught /\ [][C1_Continues]_vars

\* Reached: a decode error and then a recognition error, both answered, and
\* the worker back at the header read.
C1_Witness ==
    /\ Len(outcomes) = 2
    /\ outcomes[1].raised /\ outcomes[1].ans = NoAnswer
    /\ outcomes[2].raised /\ outcomes[2].ans.kind = "raise"
    /\ NumResponses = 2
    /\ pc = "read_header"
    /\ pc # "exited"

\* The response to a fully received frame, from the frame and what
\* model.recognize did for it alone: the ping reply for a zero-length frame,
\* the error frame of the decoder for a payload it rejects, and otherwise the
\* error or result frame of the recognize outcome a (no frame as long as
\* recognize has not been called for it).
ResponseFor(req, a) ==
    IF req.length = 0 THEN Frame(<<>>)
    ELSE LET d == decode_wav_bytes(req.payload) IN
    IF ~d.ok THEN Frame(Utf8(ErrorPrefix \o d.err))
    ELSE IF a.kind = "none" THEN [kind |-> "none", hdr |-> <<>>, body |-> <<>>]
    ELSE IF a.kind = "raise" THEN Frame(Utf8(ErrorPrefix \o a.items[1]))
    ELSE Frame(Utf8(Strip(IF a.kind = "list" THEN Join(a.items) ELSE a.items[1])))

\* The frames the host may send whole, and what model.recognize may have done
\* for one of them (nothing, when it was not called).
Requests ==
    { [length |-> 0, payload |-> NoPayload] } \cup
    { [length |-> ByteLen(c), payload |-> c] : c \in Containers }

Outcomes == Answers \cup { NoAnswer }

\* ResponseFor, tabulated.
ResponseTable ==
    [req \in Requests, a \in Outcomes |-> ResponseFor(req, a)]

\* C2: one response frame per fully received request frame, the k-th
\* response answering the k-th request; at most one request is unanswered at
\* any time and none is when the worker is about to read a header.
C2_Alternation ==
    /\ NumResponses <= Len(inbox)
    /\ Len(inbox) <= NumResponses + 1
    /\ pc = "read_header" => NumResponses = Len(inbox)
    /\ pc = "exited" => NumResponses = Len(inbox)
    /\ LET frames == OutFrames IN
          \A k \in 1..Len(frames) :
              \E a \in Outcomes : frames[k] = ResponseTable[inbox[k], a]

\* Reached: two requests of different kinds answered in order, the worker
\* about to read the third header.
C2_Witness ==
    /\ pc = "read_header"
    /\ Len(inbox) = 2
    /\ NumResponses = 2
    /\ inbox[1].length > 0
    /\ inbox[2].length = 0
    /\ OutFrames[1].body # <<>>
    /\ OutFrames[2].body = <<>>

\* C3: with the model loaded, the response to a zero-length request frame is
\* the zero-length frame (header 00 00 00 00, no payload), whatever came
\* before it, and no decode or recognize call is made for it: the decode
\* calls made so far are exactly those of the non-empty frames received.
NonEmptyReceived ==
    Cardinality({ k \in 1..Len(inbox) : inbox[k].length > 0 })

C3_Ping ==
    worker =>
        /\ \A k \in 1..NumResponses :
              inbox[k].length = 0 =>
                  /\ OutFrames[k].hdr = <<0, 0, 0, 0>>
                  /\ OutFrames[k].body = <<>>
        /\ \A k \in 1..Len(outcomes) :
              inbox[k].length = 0 => outcomes[k] = Outcome(FALSE, <<>>, NoAnswer)
        /\ Len(decoded) = NonEmptyReceived - (IF pc = "decode" THEN 1 ELSE 0)
        /\ Len(recognized) <= Len(decoded)
        /\ pc = "ping" => model = "loaded"

\* Reached: a failed request answered with an error frame, then a ping
\* answered with the zero-length frame.
C3_Witness ==
    /\ NumResponses = 2
    /\ outcomes[1].raised
    /\ inbox[2].length = 0
    /\ OutFrames[2] = [kind |-> "frame", hdr |-> <<0, 0, 0, 0>>, body |-> <<>>]
    /\ Len(decoded) = 1

\* C4 (as claimed): when the stream ends in a frame header with fewer than 4
\* bytes available, the worker ends with status 0, no exception and no frame
\* written for the partial header.
C4_ShortHeaderCleanExit ==
    (worker /\ pc = "exited" /\ stdinReads > 0 /\ Len(header) < 4) =>
        /\ exitStatus = 0
        /\ uncaught = "none"
        /\ NumResponses = Len(inbox)

\* C5: when a complete header declares length n > 0 and the stream ends
\* after fewer than n payload bytes, the worker ends with status 0 and no
\* exception, having made no decode or recognize call and written no frame
\* for the partial frame.
C5_ShortPayloadCleanExit ==
    (pc = "exited" /\ Len(header) = 4 /\ Unpack(header) > 0 /\ got < Unpack(header)) =>
        /\ exitStatus = 0
        /\ uncaught = "none"
        /\ NumResponses = Len(inbox)
        /\ Len(decoded) = NonEmptyReceived
        /\ Len(recognized) <= Len(decoded)
        /\ Len(outcomes) = Len(inbox)

\* Reached: an answered request, then a header declaring 48 bytes of which
\* 47 arrive before the stream ends.
C5_Witness ==
    /\ pc = "exited"
    /\ header = <<48, 0, 0, 0>>
    /\ got = 47
    /\ Len(inbox) = 1
    /\ NumResponses = 1
    /\ exitStatus = 0

IsLine(w) == w.kind = "line"

\* C6: the readiness line is written at most once and is the bytes of
\* "ready\n"; it is on standard output only if the model is loaded, it is
\* there once the worker is past the write, and it is the first thing
\* written and flushed before any read of stdin and before any frame.
C6_ReadyOnceFirst ==
    worker =>
        /\ Len(SelectSeq(stdout, IsLine)) <= 1
        /\ \A i \in 1..Len(stdout) :
              IsLine(stdout[i]) =>
                  /\ i = 1
                  /\ stdout[i].body = <<114, 101, 97, 100, 121, 10>>
                  /\ model = "loaded"
        /\ (model = "loaded" /\ pc # "ready") => Len(SelectSeq(stdout, IsLine)) = 1
        /\ (stdinReads > 0 \/ NumResponses > 0) =>
              /\ Len(stdout) >= 1
              /\ IsLine(stdout[1])
              /\ flushed >= 1

\* Reached: the model loaded at the retry, the line written, a request read
\* and answered.
C6_Witness ==
    /\ Len(loadLog) = 3
    /\ model = "loaded"
    /\ stdinReads > 1
    /\ NumResponses = 1
    /\ IsLine(stdout[1])

\* The model load failed for good: load_asr_model raised.
LoadRaised ==
    /\ loadLog # <<>>
    /\ loadLog[Len(loadLog)].ev = "raise"

\* C7: if the load fails for good (first attempt fails with the path absent,
\* or the retry fails) the process ends with a non-zero status, nothing
\* written to standard output and nothing read from stdin.
C7_FatalLoad ==
    worker =>
        /\ LoadRaised =>
              /\ pc = "exited"
              /\ exitStatus > 0
              /\ stdout = <<>>
              /\ stdinReads = 0
              /\ inbox = <<>>
              /\ model = "none"
        /\ (Len(loadLog) >= 2 /\ ~loadLog[1].ok /\ ~loadLog[1].after) => LoadRaised
        /\ (Len(loadLog) >= 3 /\ loadLog[3].ev = "load" /\ ~loadLog[3].ok) => LoadRaised

\* Reached: the process ended because the retry failed.
C7_Witness ==
    /\ pc = "exited"
    /\ Len(loadLog) = 4
    /\ loadLog[3].ev = "load"
    /\ ~loadLog[3].ok
    /\ exitStatus = 1

IsLoad(e) == e.ev = "load"

IsRmtree(e) == e.ev = "rmtree"

\* C8: load_asr_model calls load_model at most twice; the second call is
\* made exactly when the first failed and the path existed when it failed;
\* when the first fails with the path absent, or the second fails, the error
\* reaches the caller; after a successful first call nothing is removed.
C8_LoadAttempts ==
    /\ Len(SelectSeq(loadLog, IsLoad)) <= 2
    /\ loadLog # <<>> => IsLoad(loadLog[1])
    /\ Len(SelectSeq(loadLog, IsLoad)) = 2 =>
          (~loadLog[1].ok /\ loadLog[1].after)
    /\ (loadLog # <<>> /\ ~loadLog[1].ok /\ loadLog[1].after) =>
          \/ pc = "load_except"
          \/ pc = "load_retry"
          \/ Len(SelectSeq(loadLog, IsLoad)) = 2
    /\ (loadLog # <<>> /\ ~loadLog[1].ok /\ ~loadLog[1].after) =>
          \/ pc = "load_except"
          \/ (LoadRaised /\ uncaught = "load_model" /\ Len(loadLog) = 2)
    /\ (Len(loadLog) >= 3 /\ IsLoad(loadLog[3]) /\ ~loadLog[3].ok) =>
          (LoadRaised /\ uncaught = "load_model")
    /\ (loadLog # <<>> /\ loadLog[1].ok) =>
          /\ Len(loadLog) = 1
          /\ SelectSeq(loadLog, IsRmtree) = <<>>
          /\ (loadLog[1].after => pathExists)

\* Reached: a first call that failed with the path present, the removal,
\* and a second call.
C8_Witness ==
    /\ Len(loadLog) >= 3
    /\ ~loadLog[1].ok
    /\ loadLog[1].after
    /\ IsRmtree(loadLog[2])
    /\ IsLoad(loadLog[3])

\* C9: every response is the one determined by the request frame and the
\* recognize outcome for that frame alone, so two requests with the same
\* payload and the same outcome get the same response whatever was sent
\* between them, in particular an error frame.
C9_NoCarryOver ==
    LET frames == OutFrames IN
        /\ \A k \in 1..Len(frames) :
              frames[k] = ResponseTable[inbox[k], outcomes[k].ans]
        /\ \A i, j \in 1..Len(frames) :
              (inbox[i] = inbox[j] /\ outcomes[i].ans = outcomes[j].ans) =>
                  frames[i] = frames[j]

\* Reached: junk answered with a frame starting with "ERROR: ", then a valid
\* container answered with the text the model returned.
C9_Witness ==
    /\ NumResponses = 2
    /\ inbox[1].payload = Junk(<<1, 2, 3, 4, 5, 6, 7, 8, 9>>)
    /\ SubSeq(OutFrames[1].body, 1, 7) = <<69, 82, 82, 79, 82, 58, 32>>
    /\ inbox[2].payload = Wav(1, 16, 16000, Pcm2)
    /\ outcomes[2].ans = [kind |-> "str", items |-> <<TxtHi>>]
    /\ OutFrames[2].body = <<104, 105>>

\* C10 (as claimed): a container whose channel count is not 1, or whose
\* bits per sample are not 16, or whose rate is not 16000 Hz, is rejected by
\* decode_wav_bytes and the request never reaches model.recognize.
C10_RejectsOtherFormats ==
    \A k \in 1..Len(outcomes) :
        ( /\ inbox[k].length > 0
          /\ inbox[k].payload.hdr = "RIFF"
          /\ \/ inbox[k].payload.nchannels # 1
             \/ inbox[k].payload.bits # 16
             \/ inbox[k].payload.rate # 16000 ) =>
            /\ ~decode_wav_bytes(inbox[k].payload).ok
            /\ outcomes[k].raised
            /\ outcomes[k].ans = NoAnswer

\* The byte string starts with "ERROR: ".
HasErrorPrefix(body) ==
    /\ Len(body) >= 7
    /\ SubSeq(body, 1, 7) = <<69, 82, 82, 79, 82, 58, 32>>

\* C14 (as claimed): the response to a non-empty request frame begins with
\* "ERROR: " if and only if decoding or recognition of that request raised.
C14_SentinelIffError ==
    \A k \in 1..NumResponses :
        inbox[k].length > 0 =>
            (HasErrorPrefix(OutFrames[k].body) <=> outcomes[k].raised)

\* C16 (as claimed): every sample buffer passed to model.recognize has
\* length > 0.
C16_NonEmptyAudio ==
    \A i \in 1..Len(recognized) : Len(recognized[i]) > 0

\* C17: whenever the worker is about to read a frame header, everything
\* written to standard output has been flushed, and standard output holds
\* the readiness line followed by complete frames only (a 4-byte header
\* whose value is the number of payload bytes that follow); never is more
\* counted as flushed than was written.
C17_FlushedBeforeRead ==
    /\ flushed <= Len(stdout)
    /\ pc = "read_header" =>
          /\ flushed = Len(stdout)
          /\ Len(stdout) >= 1
          /\ IsLine(stdout[1])
          /\ \A i \in 2..Len(stdout) :
                /\ IsFrame(stdout[i])
                /\ Len(stdout[i].hdr) = 4
                /\ Unpack(stdout[i].hdr) = Len(stdout[i].body)

\* Reached: the line, a ping reply and an error frame all flushed, the
\* worker about to read the next header.
C17_Witness ==
    /\ pc = "read_header"
    /\ Len(stdout) = 3
    /\ flushed = 3
    /\ stdout[2].body = <<>>
    /\ HasErrorPrefix(stdout[3].body)
    /\ outcomes[2].raised

\* C18 (as claimed): when load_asr_model makes its second load attempt the
\* storage path does not exist.
C18_RetryOnClearedPath ==
    pc = "load_retry" => ~pathExists

\* The container is mono, 16 bits per sample, 16000 Hz.
IsValidWav(c) ==
    /\ c.hdr = "RIFF"
    /\ c.nchannels = 1
    /\ c.bits = 16
    /\ c.rate = 16000

\* C11: for a valid mono, 16-bit, 16000 Hz container decode_wav_bytes
\* returns; the buffer has one sample per two bytes of PCM data, the i-th
\* sample is the i-th little-endian two's-complement 16-bit integer of the
\* data over 32768, and every sample lies in [-1, 1].
C11_DecodeSamples ==
    (decoded # <<>> /\ IsValidWav(payload)) =>
        /\ pc = "recognize"
        /\ Len(audio) = Len(payload.data) \div 2
        /\ \A i \in 1..Len(audio) :
              LET u == payload.data[2 * i - 1] + 256 * payload.data[2 * i] IN
              /\ audio[i][2] = 32768
              /\ audio[i][1] \in -32768..32767
              /\ (audio[i][1] - u) % 65536 = 0
              /\ -1 * audio[i][2] <= audio[i][1]
              /\ audio[i][1] <= audio[i][2]

\* Reached: the samples -32768/32768 and 32767/32768, in that order.
C11_Witness ==
    /\ decoded # <<>>
    /\ IsValidWav(payload)
    /\ payload.data = <<0, 128, 255, 127>>
    /\ audio = << <<-32768, 32768>>, <<32767, 32768>> >>

RECURSIVE SumLens(_, _)
\* Total length of the first k segments.
SumLens(items, k) ==
    IF k = 0 THEN 0 ELSE SumLens(items, k - 1) + Len(items[k])

\* text is the segments in order with one space between neighbours.
IsJoined(text, items) ==
    /\ Len(text) = SumLens(items, Len(items)) +
                   (IF Len(items) = 0 THEN 0 ELSE Len(items) - 1)
    /\ \A k \in 1..Len(items) :
          LET off == SumLens(items, k - 1) + (k - 1) IN
          /\ SubSeq(text, off + 1, off + Len(items[k])) = items[k]
          /\ k < Len(items) => text[off + Len(items[k]) + 1] = 32

\* inner is text without its leading and trailing whitespace.
IsTrimmed(inner, text) ==
    \E i \in 1..(Len(text) + 1) :
        /\ inner = SubSeq(text, i, i + Len(inner) - 1)
        /\ i + Len(inner) - 1 <= Len(text)
        /\ \A p \in 1..(i - 1) : IsSpace(text[p])
        /\ \A p \in (i + Len(inner))..Len(text) : IsSpace(text[p])
        /\ inner # <<>> => (~IsSpace(inner[1]) /\ ~IsSpace(inner[Len(inner)]))

\* Number of bytes of the UTF-8 encoding of one code point.
Utf8Width(cp) ==
    IF cp < 128 THEN 1 ELSE IF cp < 2048 THEN 2 ELSE IF cp < 65536 THEN 3 ELSE 4

RECURSIVE Utf8Size(_)
Utf8Size(t) ==
    IF t = <<>> THEN 0 ELSE Utf8Width(t[1]) + Utf8Size(Tail(t))

\* The text the model returned, segments joined: the string itself, or a
\* text that is the segments with single spaces between them.
ReturnedText(r) ==
    IF r.kind = "list"
    THEN CHOOSE t \in { Join(r.items) } : IsJoined(t, r.items)
    ELSE r.items[1]

\* C13: when recognition succeeds the response payload is the UTF-8
\* encoding of the returned text (segments joined in order with single
\* spaces) without its leading and trailing whitespace, and the 4-byte
\* little-endian prefix is the number of bytes of that payload.
C13_ResultFrame ==
    (pc = "read_header" /\ stdout # <<>>) =>
        LET f == stdout[Len(stdout)]
            inner == Strip(ReturnedText(result))
        IN  /\ IsFrame(f)
            /\ IsTrimmed(inner, ReturnedText(result))
            /\ f.body = Utf8(inner)
            /\ Len(f.body) = Utf8Size(inner)
            /\ Len(f.hdr) = 4
            /\ f.hdr[1] + 256 * f.hdr[2] + 65536 * f.hdr[3] + 16777216 * f.hdr[4]
                  = Len(f.body)

\* Reached: the segments 'h' and U+00E9 joined and sent as 'h', space, C3 A9
\* with length 4; and a padded string sent trimmed.
C13_Witness ==
    /\ pc = "read_header"
    /\ result = [kind |-> "list", items |-> << <<104>>, <<233>> >>]
    /\ stdout = << [kind |-> "frame", hdr |-> <<4, 0, 0, 0>>,
                    body |-> <<104, 32, 195, 169>>] >>

\* One-shot mode with nothing on standard input: a diagnostic on standard
\* error, status 1, no load attempt and no recognize call.
C15_OneShotEmpty ==
    (~worker /\ stdinReads > 0 /\ ByteLen(payload) = 0) =>
        /\ pc = "exited"
        /\ exitStatus = 1
        /\ stderr = << MsgMissing \o <<10>> >>
        /\ loadLog = <<>>
        /\ recognized = <<>>
        /\ model = "none"

\* One-shot mode ended after a decode, a load and a recognize call that all
\* succeeded: status 0.
C15_OneShotSuccess ==
    (~worker /\ pc = "exited" /\ model = "loaded" /\ result # NoAnswer) =>
        /\ exitStatus = 0
        /\ uncaught = "none"

\* Worker mode ended after its loop started reading: the input ended (in a
\* header or in a payload), and the status is 0.
C15_WorkerEndOfInput ==
    (worker /\ pc = "exited" /\ stdinReads > 0) =>
        /\ Len(header) < 4 \/ got < length
        /\ exitStatus = 0

\* C15 (as claimed): one-shot mode with empty input prints a diagnostic to
\* standard error and returns 1 without a load attempt or a recognize call;
\* one-shot mode returns 0 when decode, load and recognition succeed; worker
\* mode returns 0 when its loop ends on end of input.
C15_ExitCodes ==
    /\ C15_OneShotEmpty
    /\ C15_OneShotSuccess
    /\ C15_WorkerEndOfInput

\* The base directory resolved from the environment the process started
\* in: LOCALAPPDATA/vtype when that variable has a non-empty value, otherwise
\* the temporary directory's vtype.
BaseDir ==
    IF env0["LOCALAPPDATA"].set /\ env0["LOCALAPPDATA"].val # <<>>
    THEN env0["LOCALAPPDATA"].val \o <<"vtype">>
    ELSE <<"tmp", "vtype">>

\* The model path resolved from that environment.
ModelPath ==
    IF env0["VTYPE_MODEL_PATH"].set /\ env0["VTYPE_MODEL_PATH"].val # <<>>
    THEN env0["VTYPE_MODEL_PATH"].val
    ELSE BaseDir \o <<"models", "nemo-parakeet-tdt-0.6b-v3">>

C19_DirsExist ==
    (pc = "load_first" \/ loadLog # <<>>) =>
        /\ BaseDir \o <<"hf">> \in dirs
        /\ BaseDir \o <<"hf", "hub">> \in dirs
        /\ BaseDir \o <<"xdg-cache">> \in dirs
        /\ path = ModelPath
        /\ SubSeq(ModelPath, 1, Len(ModelPath) - 1) \in dirs

C19_DirsKept == dirs \subseteq dirs'

\* C19: when the first load attempt is about to be made, and ever after, the
\* three cache directories under the resolved base directory (hf, hf/hub,
\* xdg-cache) and the parent directory of the resolved model path exist; no
\* directory that existed is removed on the way.
C19_DirsBeforeLoad == []C19_DirsExist /\ [][C19_DirsKept]_vars

\* Reached: a start with none of the directories, LOCALAPPDATA and
\* VTYPE_MODEL_PATH set, about to make the first load attempt.
C19_Witness ==
    /\ pc = "load_first"
    /\ loadLog = <<>>
    /\ env0["LOCALAPPDATA"] = Str(<<"C:", "Local">>)
    /\ env0["VTYPE_MODEL_PATH"] = Str(<<"m", "model">>)
    /\ dirs = { <<"C:">>, <<"C:", "Local">>, <<"C:", "Local", "vtype">>,
                <<"C:", "Local", "vtype", "hf">>,
                <<"C:", "Local", "vtype", "hf", "hub">>,
                <<"C:", "Local", "vtype", "xdg-cache">>, <<"m">> }

\* configure_hf_cache has returned.
ConfigureDone == configured > 0 /\ (pc = "import" \/ imported)

\* C20: configure_hf_cache is called once, before import onnx_asr and before
\* any load attempt; of HF_HOME, HUGGINGFACE_HUB_CACHE and XDG_CACHE_HOME,
\* each that had a value at the start keeps it and each that was absent is,
\* once the configuration has run, its subdirectory of the resolved base
\* directory; no other variable is changed.
C20_ConfigureOnceDefaultsOnly ==
    /\ configured <= 1
    /\ imported => configured = 1
    /\ (pc \in {"load_enter", "load_first"} \/ loadLog # <<>>) =>
          (configured = 1 /\ imported)
    /\ \A n \in {"LOCALAPPDATA", "VTYPE_MODEL_PATH"} : env[n] = env0[n]
    /\ \A n \in {"HF_HOME", "HUGGINGFACE_HUB_CACHE", "XDG_CACHE_HOME"} :
          /\ env0[n].set => env[n] = env0[n]
          /\ (~env0[n].set /\ ~ConfigureDone) => env[n] = env0[n]
    /\ ConfigureDone =>
          /\ ~env0["HF_HOME"].set =>
                env["HF_HOME"] = [set |-> TRUE, val |-> BaseDir \o <<"hf">>]
          /\ ~env0["HUGGINGFACE_HUB_CACHE"].set =>
                env["HUGGINGFACE_HUB_CACHE"] =
                    [set |-> TRUE, val |-> BaseDir \o <<"hf", "hub">>]
          /\ ~env0["XDG_CACHE_HOME"].set =>
                env["XDG_CACHE_HOME"] =
                    [set |-> TRUE, val |-> BaseDir \o <<"xdg-cache">>]

\* Reached: HF_HOME set to the empty string and HUGGINGFACE_HUB_CACHE set to
\* a path are kept, the absent XDG_CACHE_HOME is set under the base
\* directory, and the first load attempt has been made.
C20_Witness ==
    /\ loadLog # <<>>
    /\ env0["HF_HOME"] = [set |-> TRUE, val |-> <<>>]
    /\ env["HF_HOME"] = [set |-> TRUE, val |-> <<>>]
    /\ env["HUGGINGFACE_HUB_CACHE"] = [set |-> TRUE, val |-> <<"d", "hub">>]
    /\ ~env0["XDG_CACHE_HOME"].set
    /\ env["XDG_CACHE_HOME"] = [set |-> TRUE, val |-> <<"tmp", "vtype", "xdg-cache">>]

\* C12: a payload written as a frame (4-byte little-endian length, then the
\* bytes) and read back as the loop reads a frame is returned unchanged and
\* whole: the read never ends early, consumes the frame exactly and yields
\* the bytes that were written, for lengths 0, 1 and 65536 among others.
C12_RoundTrip ==
    /\ pc \notin {"frame_eof", "frame_error"}
    /\ pc = "frame_done" =>
          /\ Bytes(rcvd) = Bytes(sent)
          /\ length = Len(Bytes(sent))
          /\ Bytes(wire) = <<>>

\* Reached: a payload of 65536 bytes read back, its prefix 00 00 01 00.
C12_Witness ==
    /\ pc = "frame_done"
    /\ Len(Bytes(sent)) = 65536
    /\ Bytes(sent)[255] = 249
    /\ header = <<0, 0, 1, 0>>
    /\ got = 65536
    /\ Bytes(rcvd) = Bytes(sent)

====
